---- MODULE Spec2Model ----
(***************************************************************************)
(* A state-machine model of django-sage-notification: the notification     *)
(* table (models.py), the creation services and their factory              *)
(* (repository/service.py), the bulk mutators (repository/queryset.py),    *)
(* the single-record operations (models.py), the administrative bulk       *)
(* actions (admin.py) and the validation of the creation form (forms.py).  *)
(*                                                                         *)
(* Time is counted in whole hours.  The timestamps created_at/modified_at  *)
(* come from TimeStampMixin of the external sage_tools package and are not *)
(* part of the modelled row.                                               *)
(***************************************************************************)
EXTENDS Integers, FiniteSets, Sequences, TLC

(***************************************************************************)
(* Bounds of the model.                                                    *)
(***************************************************************************)
\* number of rows ever inserted (primary keys 1..MaxRows)
MaxRows == 2
\* the clock runs from 0 to MaxClock hours
MaxClock == 2
\* number of concurrent requests in the interleaved specification
MaxProcs == 2
\* number of rows stored when the visibility mutators are called
MaxArchive == 6
\* number of rows stored when the expiry actions are called
MaxQuery == 3
\* number of rows stored when the time-window filters are called
MaxWindow == 4

(***************************************************************************)
(* Python None / SQL NULL.                                                 *)
(***************************************************************************)
\* None for the text-valued columns and arguments
NULL == "NULL"
\* None for the integer-valued columns (ids; hours of a timestamp)
NullInt == -1
\* no object given (sender=None, entity=None)
NoObj == [ct |-> NULL, id |-> NullInt]

\* bool(obj) of a model instance or None, as in "if self.sender"
Truthy(obj) == obj # NoObj

(***************************************************************************)
(* helpers/choices.py and the field defaults of models.py                  *)
(***************************************************************************)
NotificationPriority == {"low", "medium", "high"}
NotificationSeverity == {"success", "info", "warning", "error"}
NotificationDeliveryMethod == {"email", "push", "sms", "web"}
NotificationScope == {"global", "user", "admin"}

\* timedelta(days=7) in hours
SevenDays == 168

\* the default of expiring_soon's hours parameter
DefaultSoonHours == 24

\* The row Notification(...) builds: every column not given takes the
\* field's default.
NewRow(user, sender_type, sender_id, action, entity_type, entity_id, context, priority, severity, delivery_method, group_id, expires_at) ==
    [user |-> user, sender_type |-> sender_type, sender_id |-> sender_id,
     action |-> action, entity_type |-> entity_type, entity_id |-> entity_id,
     context |-> context, is_read |-> FALSE, is_sent |-> FALSE,
     priority |-> priority, expires_at |-> expires_at, is_visible |-> TRUE,
     scope |-> "user", group_id |-> group_id,
     delivery_method |-> delivery_method, severity |-> severity]

(***************************************************************************)
(* Storage-level constraints of the notification table.                    *)
(***************************************************************************)
\* mutant: the sender columns declared null=True
SenderNotNull_Nullable(row) == TRUE

\* sender_type and sender_id are declared without null=True: NOT NULL
SenderNotNull(row) == row.sender_type # NULL /\ row.sender_id # NullInt

\* mutant: the check constraint left out of Meta.constraints
ValidPriority_NoCheck(row) == TRUE

\* CheckConstraint(check=Q(priority__in=['low','medium','high']))
ValidPriority(row) == row.priority \in {"low", "medium", "high"}

\* What the storage engine accepts on INSERT or UPDATE; it raises
\* IntegrityError otherwise.  Meta declares no unique constraint.
RowAccepted(row) == SenderNotNull(row) /\ ValidPriority(row)

(***************************************************************************)
(* State.                                                                  *)
(***************************************************************************)
VARIABLES
    rows,     \* the notification table: primary key -> row
    nextId,   \* the next primary key the table hands out
    clock,    \* the current time (tz.now()), in hours
    svc,      \* the service instance the running request constructed
    inst,     \* a Notification instance loaded into memory
    inst2,    \* a second instance, loaded separately by another request
    procs,    \* the concurrent grouped-creation requests
    loop,     \* the instances a running extend_expiration has fetched
    last      \* the last call made: its arguments, result and writes

vars == <<rows, nextId, clock, svc, inst, inst2, procs, loop, last>>

Ids == 1..MaxRows
Procs == 1..MaxProcs
StoredIds == DOMAIN rows

NoSvc == [cls |-> NULL, user |-> NULL, sender |-> NoObj, entity |-> NoObj,
          context |-> NULL]

\* no instance loaded
NoInst == [id |-> NullInt,
           row |-> NewRow(NULL, NULL, NullInt, NULL, NULL, NullInt, NULL,
                          NULL, NULL, NULL, NULL, NullInt)]

\* The record of a call: op and arguments (target the primary key of the
\* instance a single-record operation is called on); exc the exception raised ("" for
\* none); ret the values a creation returns (the notification's primary key
\* first), ret_n the count returned, ret_bool the boolean returned; created
\* the upsert's local flag; found_read the is_read of the row the upsert
\* fetched; wrote the number of rows the call wrote; seq alternates from one
\* call to the next, which tells a repeated call from no call.
NoCall == [op |-> "", tag |-> "", user |-> NULL, group_id |-> NULL,
           action |-> NULL, context |-> NULL, priority |-> NULL,
           sender |-> NoObj, hours |-> 0, target |-> NullInt, sel |-> {},
           exc |-> "", ret |-> <<>>, ret_n |-> NullInt,
           ret_bool |-> FALSE, created |-> FALSE, found_read |-> FALSE,
           wrote |-> 0, seq |-> 0]

\* no extend_expiration running: pending maps the primary keys still to be
\* visited to the rows fetched, count is the local counter of the action
NoLoop == [active |-> FALSE, pending |-> <<>>, count |-> 0]

\* a request that is not running
IdleProc == [pc |-> "idle", svc |-> NoSvc, action |-> NULL,
             group_id |-> NULL, found |-> {}]

\* the record of the call op, made after the call last records
Call(op) == [NoCall EXCEPT !.op = op, !.seq = 1 - last.seq]

Init ==
    /\ rows = <<>>
    /\ nextId = 1
    /\ clock = 0
    /\ svc = NoSvc
    /\ inst = NoInst
    /\ inst2 = NoInst
    /\ procs = [p \in Procs |-> IdleProc]
    /\ loop = NoLoop
    /\ last = NoCall

(***************************************************************************)
(* repository/service.py                                                   *)
(***************************************************************************)
\* The names bound in the module's namespace: its three imports and its
\* classes.  A name used in a method body and bound nowhere raises NameError
\* when the method runs.
ServiceModuleNames ==
    {"ABC", "abstractmethod", "ContentType", "Notification",
     "BaseNotificationService", "DefaultNotificationService",
     "GroupNotificationService", "ExpiringNotificationService",
     "NotificationServiceFactory"}

\* mutant: an unrecognised tag falls back to the default strategy
get_service_Fallback(service_type) ==
    IF service_type = "grouped" THEN "GroupNotificationService"
    ELSE IF service_type = "expiring" THEN "ExpiringNotificationService"
    ELSE "DefaultNotificationService"

\* NotificationServiceFactory.get_service: the class instantiated, or the
\* exception raised
get_service(service_type) ==
    IF service_type = "default" THEN "DefaultNotificationService"
    ELSE IF service_type = "grouped" THEN "GroupNotificationService"
    ELSE IF service_type = "expiring" THEN "ExpiringNotificationService"
    ELSE "ValueError"

\* BaseNotificationService._get_sender_content_type
get_sender_content_type(s) == IF Truthy(s.sender) THEN s.sender.ct ELSE NULL

\* BaseNotificationService._get_entity_content_type
get_entity_content_type(s) == IF Truthy(s.entity) THEN s.entity.ct ELSE NULL

\* "self.sender.id if self.sender else None"
sender_id_of(s) == IF Truthy(s.sender) THEN s.sender.id ELSE NullInt

\* "self.entity.id if self.entity else None"
entity_id_of(s) == IF Truthy(s.entity) THEN s.entity.id ELSE NullInt

\* A request calls NotificationServiceFactory.get_service(tag, user=,
\* sender=, entity=, context=): BaseNotificationService.__init__ stores the
\* four parameters; nothing is read from or written to storage.
GetService(tag, user, sender, entity, context) ==
    LET cls == get_service(tag) IN
    /\ svc = NoSvc
    /\ svc' = IF cls = "ValueError" THEN svc
              ELSE [cls |-> cls, user |-> user, sender |-> sender,
                    entity |-> entity, context |-> context]
    /\ last' = [Call("get_service") EXCEPT !.tag = tag,
                              !.exc = IF cls = "ValueError" THEN "ValueError" ELSE ""]
    /\ UNCHANGED <<rows, nextId, clock, inst, procs, inst2, loop>>

\* The call record of a create_notification on the service s
CreateCall(op, s, action, priority) ==
    [Call(op) EXCEPT !.user = s.user, !.sender = s.sender,
                   !.context = s.context, !.action = action,
                   !.priority = priority]

\* mutant: get_or_create in place of create; an identical row is returned
\* instead of inserted again
ObjectsCreate_GetOrCreate(call, row) ==
    /\ nextId <= MaxRows
    /\ IF \E i \in StoredIds : rows[i] = row
       THEN /\ UNCHANGED <<rows, nextId>>
            /\ last' = [call EXCEPT !.ret = <<CHOOSE i \in StoredIds : rows[i] = row>>]
       ELSE /\ rows' = (nextId :> row) @@ rows
            /\ nextId' = nextId + 1
            /\ last' = [call EXCEPT !.ret = <<nextId>>, !.created = TRUE, !.wrote = 1]
    /\ svc' = NoSvc
    /\ UNCHANGED <<clock, inst, procs, inst2, loop>>

\* Notification.objects.create(...): one INSERT, which the storage
\* engine refuses (IntegrityError) when a constraint is violated.  The
\* service instance is local to the request and is gone when the call ends.
ObjectsCreate(call, row) ==
    /\ nextId <= MaxRows
    /\ IF RowAccepted(row)
       THEN /\ rows' = (nextId :> row) @@ rows
            /\ nextId' = nextId + 1
            /\ last' = [call EXCEPT !.ret = <<nextId>>,
                                    !.created = TRUE, !.wrote = 1]
       ELSE /\ UNCHANGED <<rows, nextId>>
            /\ last' = [call EXCEPT !.exc = "IntegrityError"]
    /\ svc' = NoSvc
    /\ UNCHANGED <<clock, inst, procs, inst2, loop>>

\* DefaultNotificationService.create_notification
DefaultCreate(action, priority, severity, delivery_method) ==
    /\ svc.cls = "DefaultNotificationService"
    /\ ObjectsCreate(CreateCall("default_create", svc, action, priority),
                     NewRow(svc.user, get_sender_content_type(svc),
                            sender_id_of(svc), action,
                            get_entity_content_type(svc), entity_id_of(svc),
                            svc.context, priority, severity, delivery_method,
                            NULL, NullInt))

\* ExpiringNotificationService.create_notification: its first statement
\* evaluates now() and timedelta(...), names the module never binds.
ExpiringCreate(action, expires_in_hours, priority, severity, delivery_method) ==
    /\ svc.cls = "ExpiringNotificationService"
    /\ LET call == [CreateCall("expiring_create", svc, action, priority)
                        EXCEPT !.hours = expires_in_hours] IN
       IF {"now", "timedelta"} \subseteq ServiceModuleNames
       THEN ObjectsCreate(call,
                NewRow(svc.user, get_sender_content_type(svc),
                       sender_id_of(svc), action,
                       get_entity_content_type(svc), entity_id_of(svc),
                       svc.context, priority, severity, delivery_method,
                       NULL, clock + expires_in_hours))
       ELSE /\ last' = [call EXCEPT !.exc = "NameError"]
            /\ svc' = NoSvc
            /\ UNCHANGED <<rows, nextId, clock, inst, procs, inst2, loop>>

\* The rows update_or_create(user=, group_id=) looks up.  The ORM turns a
\* lookup value of None into IS NULL, so None matches the rows holding NULL.
GroupMatches(user, group_id) ==
    {i \in StoredIds : rows[i].user = user /\ rows[i].group_id = group_id}

\* mutant: the defaults without the 'is_read': False entry
ApplyDefaults_KeepRead(row, s, action, priority, severity, delivery_method) ==
    [row EXCEPT !.sender_type = get_sender_content_type(s),
                !.sender_id = sender_id_of(s),
                !.action = action,
                !.entity_type = get_entity_content_type(s),
                !.entity_id = entity_id_of(s),
                !.context = s.context,
                !.priority = priority,
                !.severity = severity,
                !.delivery_method = delivery_method]

\* mutant: an update that also puts the record back to visible and without
\* expiry, as a fresh insert has it
ApplyDefaults_Fresh(row, s, action, priority, severity, delivery_method) ==
    [row EXCEPT !.sender_type = get_sender_content_type(s),
                !.sender_id = sender_id_of(s),
                !.action = action,
                !.entity_type = get_entity_content_type(s),
                !.entity_id = entity_id_of(s),
                !.context = s.context,
                !.priority = priority,
                !.severity = severity,
                !.delivery_method = delivery_method,
                !.is_read = FALSE,
                !.is_visible = TRUE,
                !.expires_at = NullInt]

\* The defaults dictionary of GroupNotificationService.create_notification
\* set on a row: the columns the upsert writes
ApplyDefaults(row, s, action, priority, severity, delivery_method) ==
    [row EXCEPT !.sender_type = get_sender_content_type(s),
                !.sender_id = sender_id_of(s),
                !.action = action,
                !.entity_type = get_entity_content_type(s),
                !.entity_id = entity_id_of(s),
                !.context = s.context,
                !.priority = priority,
                !.severity = severity,
                !.delivery_method = delivery_method,
                !.is_read = FALSE]

\* The row the upsert inserts when the lookup finds nothing: the lookup
\* values and the defaults
GroupNewRow(s, action, group_id, priority, severity, delivery_method) ==
    ApplyDefaults(NewRow(s.user, NULL, NullInt, NULL, NULL, NullInt, NULL, NULL, NULL, NULL, group_id, NullInt),
                  s, action, priority, severity, delivery_method)

\* mutant: the method returns the pair update_or_create gives
GroupReturn_Pair(notification, created) == <<notification, created>>

\* "return notification": of the pair (notification, created) the method
\* returns the first component alone
GroupReturn(notification, created) == <<notification>>

\* GroupNotificationService.create_notification with no other request
\* running: update_or_create fetches the rows matching (user, group_id);
\* with none it inserts, with one it sets the defaults on it and saves, with
\* several get() raises MultipleObjectsReturned.  An insert needs a primary
\* key within the bound.
GroupCreate(action, group_id, priority, severity, delivery_method) ==
    /\ svc.cls = "GroupNotificationService"
    /\ GroupMatches(svc.user, group_id) = {} => nextId <= MaxRows
    /\ LET call == [CreateCall("group_create", svc, action, priority)
                        EXCEPT !.group_id = group_id]
           found == GroupMatches(svc.user, group_id)
       IN
       IF found = {}
       THEN LET row == GroupNewRow(svc, action, group_id, priority, severity, delivery_method) IN
            IF RowAccepted(row)
            THEN /\ rows' = (nextId :> row) @@ rows
                 /\ nextId' = nextId + 1
                 /\ last' = [call EXCEPT !.ret = GroupReturn(nextId, TRUE),
                                         !.created = TRUE, !.wrote = 1]
            ELSE /\ UNCHANGED <<rows, nextId>>
                 /\ last' = [call EXCEPT !.exc = "IntegrityError"]
       ELSE IF Cardinality(found) = 1
       THEN LET i == CHOOSE j \in found : TRUE
                row == ApplyDefaults(rows[i], svc, action, priority, severity, delivery_method)
            IN
            IF RowAccepted(row)
            THEN /\ rows' = [rows EXCEPT ![i] = row]
                 /\ last' = [call EXCEPT !.ret = GroupReturn(i, FALSE),
                                         !.found_read = rows[i].is_read,
                                         !.created = FALSE, !.wrote = 1]
                 /\ UNCHANGED nextId
            ELSE /\ UNCHANGED <<rows, nextId>>
                 /\ last' = [call EXCEPT !.exc = "IntegrityError",
                                         !.found_read = rows[i].is_read]
       ELSE /\ UNCHANGED <<rows, nextId>>
            /\ last' = [call EXCEPT !.exc = "MultipleObjectsReturned"]
    /\ svc' = NoSvc
    /\ UNCHANGED <<clock, inst, procs, inst2, loop>>

(***************************************************************************)
(* repository/queryset.py: the bulk mutators.  update() is one UPDATE       *)
(* statement and returns the number of rows matched.                       *)
(***************************************************************************)
\* mutant: the filter without its is_read=False condition
UnreadOf_AllOfUser(user) == {i \in StoredIds : rows[i].user = user}

\* filter(user=user, is_read=False)
UnreadOf(user) == {i \in StoredIds : rows[i].user = user /\ ~rows[i].is_read}

\* filter(user=user, is_read=True)
ReadOf(user) == {i \in StoredIds : rows[i].user = user /\ rows[i].is_read}

\* NotificationQuerySet.mark_all_as_read (NotificationManager delegates)
MarkAllAsRead(user) ==
    LET sel == UnreadOf(user) IN
    /\ rows' = [i \in StoredIds |->
                   IF i \in sel THEN [rows[i] EXCEPT !.is_read = TRUE] ELSE rows[i]]
    /\ last' = [Call("mark_all_as_read") EXCEPT !.user = user,
                              !.ret_n = Cardinality(sel),
                              !.wrote = Cardinality(sel)]
    /\ UNCHANGED <<nextId, clock, svc, inst, procs, inst2, loop>>

\* NotificationQuerySet.mark_all_as_unread
MarkAllAsUnread(user) ==
    LET sel == ReadOf(user) IN
    /\ rows' = [i \in StoredIds |->
                   IF i \in sel THEN [rows[i] EXCEPT !.is_read = FALSE] ELSE rows[i]]
    /\ last' = [Call("mark_all_as_unread") EXCEPT !.user = user,
                              !.ret_n = Cardinality(sel),
                              !.wrote = Cardinality(sel)]
    /\ UNCHANGED <<nextId, clock, svc, inst, procs, inst2, loop>>

\* mutant: the filter without its is_visible=True condition
VisibleOf_AllOfUser(user) == {i \in StoredIds : rows[i].user = user}

\* filter(user=user, is_visible=True)
VisibleOf(user) == {i \in StoredIds : rows[i].user = user /\ rows[i].is_visible}

\* filter(user=user, is_visible=False)
HiddenOf(user) == {i \in StoredIds : rows[i].user = user /\ ~rows[i].is_visible}

\* NotificationQuerySet.archive_all (NotificationManager delegates)
archive_all(user) ==
    LET sel == VisibleOf(user) IN
    /\ rows' = [i \in StoredIds |->
                   IF i \in sel THEN [rows[i] EXCEPT !.is_visible = FALSE] ELSE rows[i]]
    /\ last' = [Call("archive_all") EXCEPT !.user = user,
                              !.ret_n = Cardinality(sel),
                              !.wrote = Cardinality(sel)]
    /\ UNCHANGED <<nextId, clock, svc, inst, inst2, procs, loop>>

\* NotificationQuerySet.unarchive_all
unarchive_all(user) ==
    LET sel == HiddenOf(user) IN
    /\ rows' = [i \in StoredIds |->
                   IF i \in sel THEN [rows[i] EXCEPT !.is_visible = TRUE] ELSE rows[i]]
    /\ last' = [Call("unarchive_all") EXCEPT !.user = user,
                              !.ret_n = Cardinality(sel),
                              !.wrote = Cardinality(sel)]
    /\ UNCHANGED <<nextId, clock, svc, inst, inst2, procs, loop>>

\* filter(expires_at__lte=Now()): a comparison with NULL selects nothing
ExpiredAt(now) ==
    {i \in StoredIds : rows[i].expires_at # NullInt /\ rows[i].expires_at <= now}

\* mutant: the count alone, as update() returns it
DeleteReturn_Count(n) == <<n>>

\* What QuerySet.delete() returns for n rows deleted: the pair of the total
\* and the counts per model label, (0, {}) when nothing matched
DeleteReturn(n) ==
    <<n, IF n = 0 THEN {} ELSE {<<"sage_notification.Notification", n>>}>>

\* NotificationQuerySet.delete_all_expired (NotificationManager delegates):
\* "return self.filter(...).delete()"
delete_all_expired ==
    LET sel == ExpiredAt(clock) IN
    /\ rows' = [i \in StoredIds \ sel |-> rows[i]]
    /\ last' = [Call("delete_all_expired") EXCEPT !.sel = sel,
                              !.ret = DeleteReturn(Cardinality(sel)),
                              !.wrote = Cardinality(sel)]
    /\ UNCHANGED <<nextId, clock, svc, inst, inst2, procs, loop>>

\* The columns of the notification table a filter can name: the fields of
\* models.py, the primary key, and the two timestamps of TimeStampMixin,
\* which the admin lists as created_at and modified_at.  filter() on any
\* other keyword raises FieldError when it is called.
ModelFieldNames ==
    {"id", "user", "sender_type", "sender_id", "action", "entity_type",
     "entity_id", "context", "is_read", "is_sent", "priority", "expires_at",
     "is_visible", "scope", "group_id", "delivery_method", "severity",
     "created_at", "modified_at"}

\* NotificationQuerySet.updated_in_last (NotificationManager delegates):
\* filter(updated_at__gte=now() - timedelta(hours=hours))
UpdatedInLast(hours) ==
    /\ IF "updated_at" \in ModelFieldNames
       THEN last' = [Call("updated_in_last") EXCEPT !.hours = hours,
                       !.sel = {i \in StoredIds : rows[i].updated_at >= clock - hours}]
       ELSE last' = [Call("updated_in_last") EXCEPT !.hours = hours,
                       !.exc = "FieldError"]
    /\ UNCHANGED <<rows, nextId, clock, svc, inst, inst2, procs, loop>>

\* mutant: the upper end of the window left out
expiring_soon_Open(hours, now) ==
    {i \in StoredIds : /\ rows[i].expires_at # NullInt
                       /\ rows[i].expires_at < now + hours
                       /\ rows[i].expires_at >= now}

\* filter(expires_at__lte=now() + timedelta(hours=hours),
\*        expires_at__gte=now()): a comparison with NULL selects nothing
expiring_soon(hours, now) ==
    {i \in StoredIds : /\ rows[i].expires_at # NullInt
                       /\ rows[i].expires_at <= now + hours
                       /\ rows[i].expires_at >= now}

\* NotificationQuerySet.expiring_soon (NotificationManager delegates); the
\* queryset it returns is recorded as the set of primary keys it selects
ExpiringSoon(hours) ==
    /\ last' = [Call("expiring_soon") EXCEPT !.hours = hours,
                              !.sel = expiring_soon(hours, clock)]
    /\ UNCHANGED <<rows, nextId, clock, svc, inst, inst2, procs, loop>>

(***************************************************************************)
(* models.py: the single-record operations, on an instance in memory.      *)
(***************************************************************************)
\* Notification.objects.get(pk=id): a copy of the stored row
Load(id) ==
    /\ id \in StoredIds
    /\ inst' = [id |-> id, row |-> rows[id]]
    /\ last' = [Call("get") EXCEPT !.target = id]
    /\ UNCHANGED <<rows, nextId, clock, svc, procs, inst2, loop>>

\* Model.save(): an UPDATE of every column from the instance, and an INSERT
\* under the instance's primary key when no row has it any more
Saved(i) == (i.id :> i.row) @@ rows

\* "if not self.is_read"
NeedsMarkRead(row) == ~row.is_read

\* Notification.mark_as_read
MarkAsRead ==
    /\ inst.id # NullInt
    /\ IF NeedsMarkRead(inst.row)
       THEN LET i == [inst EXCEPT !.row.is_read = TRUE] IN
            /\ inst' = i
            /\ rows' = Saved(i)
            /\ last' = [Call("mark_as_read") EXCEPT !.target = inst.id,
                                      !.found_read = inst.row.is_read,
                                      !.wrote = 1]
       ELSE /\ UNCHANGED <<inst, rows>>
            /\ last' = [Call("mark_as_read") EXCEPT !.target = inst.id,
                                      !.found_read = inst.row.is_read]
    /\ UNCHANGED <<nextId, clock, svc, procs, inst2, loop>>

\* Notification.mark_as_unread
MarkAsUnread ==
    /\ inst.id # NullInt
    /\ IF inst.row.is_read
       THEN LET i == [inst EXCEPT !.row.is_read = FALSE] IN
            /\ inst' = i
            /\ rows' = Saved(i)
            /\ last' = [Call("mark_as_unread") EXCEPT !.target = inst.id,
                                      !.found_read = inst.row.is_read,
                                      !.wrote = 1]
       ELSE /\ UNCHANGED <<inst, rows>>
            /\ last' = [Call("mark_as_unread") EXCEPT !.target = inst.id,
                                      !.found_read = inst.row.is_read]
    /\ UNCHANGED <<nextId, clock, svc, procs, inst2, loop>>

\* mutant: strict comparison
is_expired_Strict(row, now) ==
    IF row.expires_at # NullInt THEN row.expires_at < now ELSE FALSE

\* Notification.is_expired: a datetime is truthy whatever its value, so
\* "if self.expires_at" tests for None
is_expired(row, now) ==
    IF row.expires_at # NullInt THEN row.expires_at <= now ELSE FALSE

\* The call inst.is_expired()
IsExpired ==
    /\ inst.id # NullInt
    /\ last' = [Call("is_expired") EXCEPT !.target = inst.id,
                              !.ret_bool = is_expired(inst.row, clock)]
    /\ UNCHANGED <<rows, nextId, clock, svc, inst, procs, inst2, loop>>

\* mutant: the flag is only ever set, as in mark_as_read
toggled_SetOnly(is_read) == TRUE

\* "not self.is_read"
toggled(is_read) == ~is_read

\* Notification.toggle_read_status: no test, the flag is inverted and the
\* instance saved on every call
ToggleReadStatus ==
    /\ inst.id # NullInt
    /\ LET i == [inst EXCEPT !.row.is_read = toggled(@)] IN
       /\ inst' = i
       /\ rows' = Saved(i)
    /\ last' = [Call("toggle_read_status") EXCEPT !.target = inst.id,
                              !.found_read = inst.row.is_read,
                              !.wrote = 1]
    /\ UNCHANGED <<nextId, clock, svc, inst2, procs, loop>>

\* Notification.objects.get(pk=id) by another request: a second copy of the
\* stored row
Load2(id) ==
    /\ id \in StoredIds
    /\ inst2' = [id |-> id, row |-> rows[id]]
    /\ last' = [Call("get2") EXCEPT !.target = id]
    /\ UNCHANGED <<rows, nextId, clock, svc, inst, procs, loop>>

\* Notification.archive, called on the second copy
Archive2 ==
    /\ inst2.id # NullInt
    /\ IF inst2.row.is_visible
       THEN LET i == [inst2 EXCEPT !.row.is_visible = FALSE] IN
            /\ inst2' = i
            /\ rows' = Saved(i)
            /\ last' = [Call("archive") EXCEPT !.target = inst2.id, !.wrote = 1]
       ELSE /\ UNCHANGED <<inst2, rows>>
            /\ last' = [Call("archive") EXCEPT !.target = inst2.id]
    /\ UNCHANGED <<nextId, clock, svc, inst, procs, loop>>

\* Notification.unarchive, called on the second copy
Unarchive2 ==
    /\ inst2.id # NullInt
    /\ IF ~inst2.row.is_visible
       THEN LET i == [inst2 EXCEPT !.row.is_visible = TRUE] IN
            /\ inst2' = i
            /\ rows' = Saved(i)
            /\ last' = [Call("unarchive") EXCEPT !.target = inst2.id, !.wrote = 1]
       ELSE /\ UNCHANGED <<inst2, rows>>
            /\ last' = [Call("unarchive") EXCEPT !.target = inst2.id]
    /\ UNCHANGED <<nextId, clock, svc, inst, procs, loop>>

\* Notification.send_notification, called on the second copy
SendNotification2 ==
    /\ inst2.id # NullInt
    /\ IF ~inst2.row.is_sent
       THEN LET i == [inst2 EXCEPT !.row.is_sent = TRUE] IN
            /\ inst2' = i
            /\ rows' = Saved(i)
            /\ last' = [Call("send_notification") EXCEPT !.target = inst2.id,
                                      !.wrote = 1]
       ELSE /\ UNCHANGED <<inst2, rows>>
            /\ last' = [Call("send_notification") EXCEPT !.target = inst2.id]
    /\ UNCHANGED <<nextId, clock, svc, inst, procs, loop>>

(***************************************************************************)
(* admin.py: the administrative bulk actions on a selected set of rows.    *)
(***************************************************************************)
\* queryset.update(priority=p), the body of update_priority_to_high and
\* update_priority_to_low
UpdatePriority(sel, p) ==
    /\ sel # {} /\ sel \subseteq StoredIds
    /\ LET new == [i \in StoredIds |->
                      IF i \in sel THEN [rows[i] EXCEPT !.priority = p] ELSE rows[i]]
       IN
       IF \A i \in sel : RowAccepted(new[i])
       THEN /\ rows' = new
            /\ last' = [Call("update_priority") EXCEPT !.priority = p,
                                      !.ret_n = Cardinality(sel),
                                      !.wrote = Cardinality(sel)]
       ELSE /\ UNCHANGED rows
            /\ last' = [Call("update_priority") EXCEPT !.priority = p,
                                      !.exc = "IntegrityError"]
    /\ UNCHANGED <<nextId, clock, svc, inst, procs, inst2, loop>>

\* NotificationAdmin.update_priority_to_high
update_priority_to_high(sel) == UpdatePriority(sel, "high")

\* NotificationAdmin.update_priority_to_low
update_priority_to_low(sel) == UpdatePriority(sel, "low")

\* NotificationAdmin.expire_selected: queryset.update(expires_at=now())
expire_selected(sel) ==
    /\ sel # {} /\ sel \subseteq StoredIds
    /\ rows' = [i \in StoredIds |->
                   IF i \in sel THEN [rows[i] EXCEPT !.expires_at = clock] ELSE rows[i]]
    /\ last' = [Call("expire_selected") EXCEPT !.ret_n = Cardinality(sel),
                              !.wrote = Cardinality(sel)]
    /\ UNCHANGED <<nextId, clock, svc, inst, procs, inst2, loop>>

\* mutant: the loop body without its test
Extended_All(sel) == sel

\* NotificationAdmin.mark_selected_as_sent: queryset.update(is_sent=True)
mark_selected_as_sent(sel) ==
    /\ sel # {} /\ sel \subseteq StoredIds
    /\ rows' = [i \in StoredIds |->
                   IF i \in sel THEN [rows[i] EXCEPT !.is_sent = TRUE] ELSE rows[i]]
    /\ last' = [Call("mark_selected_as_sent") EXCEPT !.sel = sel,
                              !.ret_n = Cardinality(sel),
                              !.wrote = Cardinality(sel)]
    /\ UNCHANGED <<nextId, clock, svc, inst, inst2, procs, loop>>

\* The rows of the selection extend_expiration changes: "if
\* notification.expires_at"
Extended(sel) == {i \in sel : rows[i].expires_at # NullInt}

\* NotificationAdmin.extend_expiration with no other request running: a loop
\* over the selection that adds seven days to each expires_at that is set
\* and saves the instance.  Timestamps beyond MaxClock + SevenDays are not
\* explored.
extend_expiration(sel) ==
    /\ sel # {} /\ sel \subseteq StoredIds
    /\ \A i \in sel : rows[i].expires_at <= MaxClock
    /\ rows' = [i \in StoredIds |->
                   IF i \in Extended(sel)
                   THEN [rows[i] EXCEPT !.expires_at = @ + SevenDays]
                   ELSE rows[i]]
    /\ last' = [Call("extend_expiration") EXCEPT !.sel = sel,
                              !.ret_n = Cardinality(Extended(sel)),
                              !.wrote = Cardinality(Extended(sel))]
    /\ UNCHANGED <<nextId, clock, svc, inst, procs, inst2, loop>>

\* extend_expiration as it runs beside other requests.  "for notification in
\* queryset" fetches the selected rows with one SELECT when the loop starts;
\* each turn of the loop then works on the instance fetched.
ExtendBegin(sel) ==
    /\ ~loop.active
    /\ sel # {} /\ sel \subseteq StoredIds
    /\ \A i \in sel : rows[i].expires_at <= MaxClock
    /\ loop' = [active |-> TRUE, pending |-> [i \in sel |-> rows[i]], count |-> 0]
    /\ last' = [Call("extend_begin") EXCEPT !.sel = sel]
    /\ UNCHANGED <<rows, nextId, clock, svc, inst, inst2, procs>>

\* The instance the loop visits next: Meta.ordering is -created_at, the
\* newest row first
NextVisited == CHOOSE i \in DOMAIN loop.pending : \A j \in DOMAIN loop.pending : j <= i

\* One turn of the loop: "if notification.expires_at" adds seven days to the
\* instance's expires_at, saves the instance and counts it.
ExtendStep ==
    /\ loop.active /\ DOMAIN loop.pending # {}
    /\ LET i == NextVisited
           row == loop.pending[i]
           rest == [j \in DOMAIN loop.pending \ {i} |-> loop.pending[j]]
       IN
       IF row.expires_at # NullInt
       THEN /\ rows' = Saved([id |-> i,
                               row |-> [row EXCEPT !.expires_at = @ + SevenDays]])
            /\ loop' = [loop EXCEPT !.pending = rest, !.count = @ + 1]
            /\ last' = [Call("extend_step") EXCEPT !.target = i, !.wrote = 1]
       ELSE /\ UNCHANGED rows
            /\ loop' = [loop EXCEPT !.pending = rest]
            /\ last' = [Call("extend_step") EXCEPT !.target = i]
    /\ UNCHANGED <<nextId, clock, svc, inst, inst2, procs>>

\* The loop is over: message_user reports extended_count.
ExtendEnd ==
    /\ loop.active /\ DOMAIN loop.pending = {}
    /\ loop' = NoLoop
    /\ last' = [Call("extend_expiration") EXCEPT !.ret_n = loop.count]
    /\ UNCHANGED <<rows, nextId, clock, svc, inst, inst2, procs>>

(***************************************************************************)
(* forms.py: NotificationAdminForm.clean on the two optional sender fields. *)
(***************************************************************************)
\* bool(n) of an int or None: None and 0 are false
IntTruthy(n) == n # NullInt /\ n # 0

\* bool(ct) of a ContentType or None
TypeTruthy(ct) == ct # NULL

\* The exception clean raises for cleaned_data's sender_content_type and
\* sender_object_id, "" when it returns cleaned_data
clean(sender_type, sender_id) ==
    IF TypeTruthy(sender_type) /\ ~IntTruthy(sender_id) THEN "ValidationError"
    ELSE IF ~TypeTruthy(sender_type) /\ IntTruthy(sender_id) THEN "ValidationError"
    ELSE ""

\* The form is validated; clean writes nothing to storage, and when it
\* returns, cleaned_data carries the two values as sender_type and sender_id.
CleanForm(sender_content_type, sender_object_id) ==
    /\ last' = [Call("clean") EXCEPT
                  !.sender = [ct |-> sender_content_type, id |-> sender_object_id],
                  !.exc = clean(sender_content_type, sender_object_id)]
    /\ UNCHANGED <<rows, nextId, clock, svc, inst, inst2, procs, loop>>

\* One hour passes.
Tick ==
    /\ clock < MaxClock
    /\ clock' = clock + 1
    /\ last' = Call("tick")
    /\ UNCHANGED <<rows, nextId, svc, inst, procs, inst2, loop>>

(***************************************************************************)
(* Grouped creation by concurrent requests.  update_or_create runs          *)
(*     with transaction.atomic():                                          *)
(*         select_for_update().get(...)   -- locks the rows it finds  *)
(*         INSERT when none was found, else UPDATE of the row found        *)
(* A SELECT ... FOR UPDATE that finds no row locks nothing, and the table  *)
(* has no unique constraint on (user, group_id) to refuse a second INSERT. *)
(***************************************************************************)
\* the rows a running request holds locked
Locked == UNION {procs[q].found : q \in {r \in Procs : procs[r].pc = "update"}}

\* A request constructs its service and calls create_notification.
PBegin(p, s, action, group_id) ==
    /\ procs[p].pc = "idle"
    /\ procs' = [procs EXCEPT ![p] = [pc |-> "get", svc |-> s, action |-> action,
                                      group_id |-> group_id, found |-> {}]]
    /\ last' = Call("begin")
    /\ UNCHANGED <<rows, nextId, clock, svc, inst, inst2, loop>>

\* The call record of request p
PCall(p) ==
    [CreateCall("group_create", procs[p].svc, procs[p].action, "medium")
        EXCEPT !.group_id = procs[p].group_id]

\* select_for_update().get(user=, group_id=): waits while a row it matches
\* is locked
PGet(p) ==
    /\ procs[p].pc = "get"
    /\ LET found == GroupMatches(procs[p].svc.user, procs[p].group_id) IN
       /\ found \cap Locked = {}
       /\ IF found = {}
          THEN /\ procs' = [procs EXCEPT ![p].pc = "insert"]
               /\ last' = Call("select")
          ELSE IF Cardinality(found) = 1
          THEN /\ procs' = [procs EXCEPT ![p].pc = "update", ![p].found = found]
               /\ last' = Call("select")
          ELSE /\ procs' = [procs EXCEPT ![p] = IdleProc]
               /\ last' = [PCall(p) EXCEPT !.exc = "MultipleObjectsReturned"]
    /\ UNCHANGED <<rows, nextId, clock, svc, inst, inst2, loop>>

\* get() raised DoesNotExist: create(...) and commit
PInsert(p) ==
    /\ procs[p].pc = "insert"
    /\ nextId <= MaxRows
    /\ LET row == GroupNewRow(procs[p].svc, procs[p].action, procs[p].group_id, "medium", "info", "web") IN
       IF RowAccepted(row)
       THEN /\ rows' = (nextId :> row) @@ rows
            /\ nextId' = nextId + 1
            /\ last' = [PCall(p) EXCEPT !.ret = GroupReturn(nextId, TRUE),
                                        !.created = TRUE, !.wrote = 1]
       ELSE /\ UNCHANGED <<rows, nextId>>
            /\ last' = [PCall(p) EXCEPT !.exc = "IntegrityError"]
    /\ procs' = [procs EXCEPT ![p] = IdleProc]
    /\ UNCHANGED <<clock, svc, inst, inst2, loop>>

\* get() returned the row: set the defaults, save, commit (the lock goes)
PUpdate(p) ==
    /\ procs[p].pc = "update"
    /\ LET i == CHOOSE j \in procs[p].found : TRUE
           row == ApplyDefaults(rows[i], procs[p].svc, procs[p].action, "medium", "info", "web")
       IN
       IF RowAccepted(row)
       THEN /\ rows' = [rows EXCEPT ![i] = row]
            /\ last' = [PCall(p) EXCEPT !.ret = GroupReturn(i, FALSE),
                                        !.found_read = rows[i].is_read,
                                        !.wrote = 1]
       ELSE /\ UNCHANGED rows
            /\ last' = [PCall(p) EXCEPT !.exc = "IntegrityError"]
    /\ procs' = [procs EXCEPT ![p] = IdleProc]
    /\ UNCHANGED <<nextId, clock, svc, inst, inst2, loop>>

(***************************************************************************)
(* The inputs explored.                                                    *)
(***************************************************************************)
Tags == {"default", "grouped", "expiring", "unknown"}
Recipients == {NULL, "u1"}
Sender1 == [ct |-> "auth.user", id |-> 1]
Senders == {NoObj, Sender1}
Contexts == {"c1", "c2"}
Actions == {"a1", "a2"}
Groups == {"g1"}
Selections == SUBSET StoredIds \ {{}}

(***************************************************************************)
(* Spec: the factory and the three creation services, one request at a     *)
(* time.                                                                   *)
(***************************************************************************)
Next ==
    \/ \E tag \in Tags, user \in Recipients, sender \in Senders, context \in Contexts :
          GetService(tag, user, sender, NoObj, context)
    \/ \E a \in Actions : DefaultCreate(a, "medium", "info", "web")
    \/ \E a \in Actions, g \in Groups : GroupCreate(a, g, "medium", "info", "web")
    \/ \E a \in Actions : ExpiringCreate(a, 1, "low", "info", "web")

Spec == Init /\ [][Next]_vars

(***************************************************************************)
(* SpecGroup: grouped creation among plain notifications that are read in  *)
(* between.                                                                *)
(***************************************************************************)
NextGroup ==
    \/ \E tag \in {"default", "grouped"}, user \in Recipients, context \in Contexts :
          GetService(tag, user, Sender1, NoObj, context)
    \/ DefaultCreate("a1", "medium", "info", "web")
    \/ \E a \in Actions, g \in Groups : GroupCreate(a, g, "medium", "info", "web")
    \/ \E u \in Recipients : MarkAllAsRead(u)

SpecGroup == Init /\ [][NextGroup]_vars

(***************************************************************************)
(* SpecConc: concurrent grouped creations for one (recipient, group_id).   *)
(***************************************************************************)
ConcSvc == [cls |-> "GroupNotificationService", user |-> "u1", sender |-> Sender1,
            entity |-> NoObj, context |-> "c1"]

NextConc ==
    \/ \E p \in Procs, a \in Actions : PBegin(p, ConcSvc, a, "g1")
    \/ \E p \in Procs : PGet(p)
    \/ \E p \in Procs : PInsert(p)
    \/ \E p \in Procs : PUpdate(p)

SpecConc == Init /\ [][NextConc]_vars

(***************************************************************************)
(* SpecSender: creations with and without a sender, and mutations of the   *)
(* rows stored.                                                            *)
(***************************************************************************)
NextSender ==
    \/ \E tag \in Tags \ {"unknown"}, sender \in Senders :
          GetService(tag, "u1", sender, NoObj, "c1")
    \/ DefaultCreate("a1", "medium", "info", "web")
    \/ GroupCreate("a1", "g1", "medium", "info", "web")
    \/ ExpiringCreate("a1", 1, "low", "info", "web")
    \/ MarkAllAsRead("u1")
    \/ \E i \in Ids : Load(i)
    \/ MarkAsRead
    \/ MarkAsUnread

SpecSender == Init /\ [][NextSender]_vars

(***************************************************************************)
(* SpecPriority: creations with a valid and an invalid priority, and the   *)
(* administrative priority actions.                                        *)
(***************************************************************************)
Priorities == {"medium", "urgent"}

NextPriority ==
    \/ \E tag \in {"default", "grouped"} : GetService(tag, "u1", Sender1, NoObj, "c1")
    \/ \E p \in Priorities : DefaultCreate("a1", p, "info", "web")
    \/ \E p \in Priorities : GroupCreate("a1", "g1", p, "info", "web")
    \/ \E sel \in Selections : update_priority_to_high(sel)
    \/ \E sel \in Selections : update_priority_to_low(sel)

SpecPriority == Init /\ [][NextPriority]_vars

(***************************************************************************)
(* SpecExpiry: expiry set and extended by the administrative actions, the  *)
(* clock, and is_expired on loaded instances.                              *)
(***************************************************************************)
NextExpiry ==
    \/ GetService("default", "u1", Sender1, NoObj, "c1")
    \/ DefaultCreate("a1", "medium", "info", "web")
    \/ \E sel \in Selections : expire_selected(sel)
    \/ \E i \in StoredIds : extend_expiration({i})
    \/ Tick
    \/ \E i \in Ids : Load(i)
    \/ IsExpired

SpecExpiry == Init /\ [][NextExpiry]_vars

(***************************************************************************)
(* SpecRead: the read flag, by the bulk mutators and on loaded instances.  *)
(***************************************************************************)
NextRead ==
    \/ \E user \in Recipients : GetService("default", user, Sender1, NoObj, "c1")
    \/ DefaultCreate("a1", "medium", "info", "web")
    \/ \E u \in Recipients : MarkAllAsRead(u)
    \/ \E u \in Recipients : MarkAllAsUnread(u)
    \/ \E i \in Ids : Load(i)
    \/ MarkAsRead
    \/ MarkAsUnread

SpecRead == Init /\ [][NextRead]_vars

(***************************************************************************)
(* SpecToggle: the read flag set, cleared and toggled on a loaded instance. *)
(***************************************************************************)
NextToggle ==
    \/ \E user \in Recipients : GetService("default", user, Sender1, NoObj, "c1")
    \/ DefaultCreate("a1", "medium", "info", "web")
    \/ \E i \in Ids : Load(i)
    \/ MarkAsRead
    \/ ToggleReadStatus

SpecToggle == Init /\ [][NextToggle]_vars

(***************************************************************************)
(* SpecArchive: the visibility mutators on a table of MaxArchive records of *)
(* two users, each visible or archived, as default creations and earlier   *)
(* archive_all calls leave them.                                           *)
(***************************************************************************)
ArchiveUsers == {"u1", "u2"}

\* a stored plain notification of the user, visible or archived
StoredRow(user, visible) ==
    [NewRow(user, Sender1.ct, Sender1.id, "a1", NULL, NullInt, "c1", "medium", "info", "web", NULL, NullInt)
        EXCEPT !.is_visible = visible]

InitArchive ==
    /\ rows \in [1..MaxArchive ->
                    {StoredRow(u, v) : u \in ArchiveUsers, v \in BOOLEAN}]
    /\ nextId = MaxArchive + 1
    /\ clock = 0
    /\ svc = NoSvc
    /\ inst = NoInst
    /\ inst2 = NoInst
    /\ procs = [p \in Procs |-> IdleProc]
    /\ loop = NoLoop
    /\ last = NoCall

NextArchive ==
    \/ \E u \in ArchiveUsers : archive_all(u)
    \/ \E u \in ArchiveUsers : unarchive_all(u)

SpecArchive == InitArchive /\ [][NextArchive]_vars

(***************************************************************************)
(* SpecDelete: delete_all_expired as the clock advances over a table of    *)
(* MaxQuery records of two recipients, each without expires_at or expiring *)
(* at some hour.                                                           *)
(***************************************************************************)
\* a stored plain notification of the user with the given expires_at
ExpiringRow(user, expires_at) ==
    NewRow(user, Sender1.ct, Sender1.id, "a1", NULL, NullInt, "c1", "medium", "info", "web", NULL, expires_at)

\* a table of n records drawn from rowset, and nothing in memory
Holding(n, rowset) ==
    /\ rows \in [1..n -> rowset]
    /\ nextId = n + 1
    /\ svc = NoSvc
    /\ inst = NoInst
    /\ inst2 = NoInst
    /\ procs = [p \in Procs |-> IdleProc]
    /\ loop = NoLoop
    /\ last = NoCall

InitExpiring ==
    /\ Holding(MaxQuery, {ExpiringRow(u, e) : u \in Recipients,
                                              e \in {NullInt} \cup 0..MaxClock})
    /\ clock = 0

NextDelete ==
    \/ Tick
    \/ delete_all_expired

SpecDelete == InitExpiring /\ [][NextDelete]_vars

(***************************************************************************)
(* SpecLoop: extend_expiration running beside the bulk mutators of other   *)
(* requests.                                                               *)
(***************************************************************************)
NextLoop ==
    \/ GetService("default", "u1", Sender1, NoObj, "c1")
    \/ DefaultCreate("a1", "medium", "info", "web")
    \/ \E sel \in Selections : expire_selected(sel)
    \/ MarkAllAsRead("u1")
    \/ \E sel \in Selections : ExtendBegin(sel)
    \/ ExtendStep
    \/ ExtendEnd

SpecLoop == Init /\ [][NextLoop]_vars

(***************************************************************************)
(* SpecExtend: the administrative expiry actions, one request at a time,   *)
(* on selections of a table of MaxQuery records with and without           *)
(* expires_at.                                                             *)
(***************************************************************************)
InitExtend ==
    /\ Holding(MaxQuery, {ExpiringRow("u1", e) : e \in {NullInt} \cup 0..MaxClock})
    /\ clock = 0

NextExtend ==
    \/ \E sel \in Selections : extend_expiration(sel)
    \/ \E i \in StoredIds : expire_selected({i})

SpecExtend == InitExtend /\ [][NextExtend]_vars

(***************************************************************************)
(* SpecForm: the creation form validated beside plain creations.           *)
(***************************************************************************)
FormTypes == {NULL, "auth.user"}
FormIds == {NullInt, 0, 1}

NextForm ==
    \/ \E user \in Recipients : GetService("default", user, Sender1, NoObj, "c1")
    \/ DefaultCreate("a1", "medium", "info", "web")
    \/ \E t \in FormTypes, n \in FormIds : CleanForm(t, n)

SpecForm == Init /\ [][NextForm]_vars

(***************************************************************************)
(* SpecWindow: the time-window filters as the clock advances over a table  *)
(* of MaxWindow records without expires_at or expiring at hour 0, or 12,   *)
(* 24 or 48 hours after hour 1.                                            *)
(***************************************************************************)
WindowTimes == {NullInt, 0, 1 + 12, 1 + 24, 1 + 48}
WindowHours == {DefaultSoonHours, 1}

InitWindow ==
    /\ Holding(MaxWindow, {ExpiringRow("u1", e) : e \in WindowTimes})
    /\ clock = 0

NextWindow ==
    \/ Tick
    \/ \E h \in WindowHours : ExpiringSoon(h)
    \/ \E h \in WindowHours : UpdatedInLast(h)

SpecWindow == InitWindow /\ [][NextWindow]_vars

(***************************************************************************)
(* SpecFlags: two requests, each with its own copy of the first record,    *)
(* one calling the read-status operations and the other the visibility and *)
(* sent operations, in any order.                                          *)
(***************************************************************************)
NextFlags ==
    \/ GetService("default", "u1", Sender1, NoObj, "c1")
    \/ DefaultCreate("a1", "medium", "info", "web")
    \/ Load(1)
    \/ Load2(1)
    \/ MarkAsRead
    \/ MarkAsUnread
    \/ ToggleReadStatus
    \/ Archive2
    \/ Unarchive2
    \/ SendNotification2

SpecFlags == Init /\ [][NextFlags]_vars

(***************************************************************************)
(* SpecRefresh: a grouped notification refreshed after it was read,        *)
(* archived, sent or expired, beside a plain notification.                 *)
(***************************************************************************)
NextRefresh ==
    \/ GetService("default", "u1", Sender1, NoObj, "c1")
    \/ \E context \in Contexts : GetService("grouped", "u1", Sender1, NoObj, context)
    \/ DefaultCreate("a1", "medium", "info", "web")
    \/ \E a \in Actions : GroupCreate(a, "g1", "high", "warning", "email")
    \/ MarkAllAsRead("u1")
    \/ archive_all("u1")
    \/ mark_selected_as_sent(StoredIds)
    \/ expire_selected(StoredIds)

SpecRefresh == Init /\ [][NextRefresh]_vars

(***************************************************************************)
(* Properties.                                                             *)
(***************************************************************************)
CreateOps == {"default_create", "group_create", "expiring_create"}

\* every row stored before the step is stored unchanged after it
RowsKept == \A i \in DOMAIN rows : i \in DOMAIN rows' /\ rows'[i] = rows[i]

\* C1: after a grouped create_notification for (U, G), whether it is the
\* first or a later call for the pair and whatever is_read was before,
\* exactly one stored record has that pair, and it carries the call's action
\* and context and is_read = false.
C1_GroupedUpsert ==
    last.op = "group_create" =>
        /\ last.exc = ""
        /\ Cardinality(GroupMatches(last.user, last.group_id)) = 1
        /\ \A i \in GroupMatches(last.user, last.group_id) :
              /\ rows[i].action = last.action
              /\ rows[i].context = last.context
              /\ rows[i].is_read = FALSE

\* a second call for the pair has updated a row that had been read, beside
\* another notification of the same recipient
C1_Witness ==
    /\ last.op = "group_create" /\ last.exc = ""
    /\ ~last.created /\ last.found_read
    /\ \E i \in StoredIds : rows[i].user = last.user /\ rows[i].group_id = NULL

\* C2: whatever the interleaving of concurrent grouped creations, no two
\* stored records share a (recipient, group_id) pair.
C2_NoDuplicateGroup ==
    \A i, j \in StoredIds :
        (rows[i].group_id # NULL /\ rows[i].group_id = rows[j].group_id
            /\ rows[i].user = rows[j].user) => i = j

\* C3 as stated: grouped create_notification returns the record and a flag
\* that is true exactly when the call inserted a row.
C3_ReturnsRecordAndFlag ==
    (last.op = "group_create" /\ last.exc = "") =>
        /\ Len(last.ret) = 2
        /\ last.ret[1] \in GroupMatches(last.user, last.group_id)
        /\ last.ret[2] = last.created

\* C3 as amended: grouped create_notification returns the resulting record
\* alone, the stored row of the pair; the flag of the upsert is not returned.
C3_ReturnsRecordOnly ==
    (last.op = "group_create" /\ last.exc = "") =>
        /\ Len(last.ret) = 1
        /\ last.ret[1] \in GroupMatches(last.user, last.group_id)

\* a grouped call that updated and one that inserted both return one value
C3_Witness ==
    /\ last.op = "group_create" /\ last.exc = "" /\ ~last.created
    /\ Len(last.ret) = 1 /\ last.ret[1] \in StoredIds

\* C4: every successful default create_notification adds exactly one record
\* and leaves every record stored before unchanged.
C4_DefaultAlwaysInserts ==
    [][(last'.op = "default_create" /\ last'.exc = "") =>
          /\ Cardinality(DOMAIN rows') = Cardinality(DOMAIN rows) + 1
          /\ RowsKept
          /\ last'.ret = <<nextId>> /\ nextId \notin DOMAIN rows]_vars

\* two calls with identical parameters have left two records equal in every
\* column
C4_Witness ==
    /\ last.op = "default_create" /\ last.exc = ""
    /\ \E i, j \in StoredIds : i # j /\ rows[i] = rows[j]

\* C5: an expiring create_notification with a sender inserts a record whose
\* expires_at is the creation time plus expires_in_hours.
C5_ExpiringInserts ==
    (last.op = "expiring_create" /\ Truthy(last.sender)) =>
        /\ last.exc = ""
        /\ Len(last.ret) = 1
        /\ last.ret[1] \in StoredIds
        /\ rows[last.ret[1]].expires_at = clock + last.hours
        /\ ~is_expired(rows[last.ret[1]], clock)
        /\ is_expired(rows[last.ret[1]], clock + 2)

\* C6: get_service constructs the default, grouped or expiring service for
\* its tag, raises for any other tag, and never changes the stored records.
C6_Factory ==
    [][last'.op = "get_service" =>
          /\ rows' = rows /\ nextId' = nextId
          /\ last'.tag = "default" =>
                (last'.exc = "" /\ svc'.cls = "DefaultNotificationService")
          /\ last'.tag = "grouped" =>
                (last'.exc = "" /\ svc'.cls = "GroupNotificationService")
          /\ last'.tag = "expiring" =>
                (last'.exc = "" /\ svc'.cls = "ExpiringNotificationService")
          /\ last'.tag \notin {"default", "grouped", "expiring"} =>
                (last'.exc = "ValueError" /\ svc' = NoSvc)]_vars

\* an unknown tag has raised with records in storage
C6_Witness ==
    /\ last.op = "get_service" /\ last.tag = "unknown" /\ last.exc = "ValueError"
    /\ StoredIds # {}

\* C7: no stored record lacks sender_type or sender_id, and a creation by a
\* service constructed without a sender stores nothing.
C7_EveryRowHasSender ==
    [][/\ \A i \in DOMAIN rows' :
             rows'[i].sender_type # NULL /\ rows'[i].sender_id # NullInt
       /\ (last'.op \in CreateOps /\ ~Truthy(last'.sender)) =>
             (rows' = rows /\ last'.exc # "")]_vars

\* a grouped creation without a sender was refused for a pair that is stored
C7_Witness ==
    /\ last.op = "group_create" /\ ~Truthy(last.sender)
    /\ last.exc = "IntegrityError"
    /\ GroupMatches(last.user, last.group_id) # {}

\* C8: every stored priority is low, medium or high; a creation with another
\* priority fails and stores nothing; the administrative priority actions
\* write only high or low.
C8_PriorityValid ==
    [][/\ \A i \in DOMAIN rows' : rows'[i].priority \in NotificationPriority
       /\ (last'.op \in CreateOps /\ last'.priority \notin NotificationPriority) =>
             (rows' = rows /\ last'.exc # "")
       /\ last'.op = "update_priority" =>
             /\ last'.priority \in {"high", "low"}
             /\ DOMAIN rows' = DOMAIN rows
             /\ \A i \in DOMAIN rows :
                   rows'[i] \in {rows[i], [rows[i] EXCEPT !.priority = "high"],
                                 [rows[i] EXCEPT !.priority = "low"]}]_vars

\* a grouped creation with priority 'urgent' was refused for a stored pair,
\* with a row an administrative action set to high
C8_Witness ==
    /\ last.op = "group_create" /\ last.priority = "urgent"
    /\ last.exc = "IntegrityError"
    /\ GroupMatches(last.user, last.group_id) # {}
    /\ \E i \in StoredIds : rows[i].priority = "high"

\* C9: is_expired() is true exactly when expires_at is set and not after the
\* current time, for the instance it is called on and for every stored row
\* at every time; the call writes nothing.
C9_IsExpired ==
    [][/\ \A i \in DOMAIN rows', now \in 0..MaxClock :
             is_expired(rows'[i], now) <=>
                (rows'[i].expires_at # NullInt /\ rows'[i].expires_at <= now)
       /\ last'.op = "is_expired" =>
             /\ last'.ret_bool <=>
                   (inst.row.expires_at # NullInt /\ inst.row.expires_at <= clock)
             /\ inst.row.expires_at = NullInt => ~last'.ret_bool
             /\ rows' = rows /\ inst' = inst /\ clock' = clock]_vars

\* is_expired() has answered true for an instance expiring at this very hour
C9_Witness ==
    /\ last.op = "is_expired" /\ last.ret_bool
    /\ inst.row.expires_at = clock /\ clock > 0

\* C10: mark_as_read leaves the instance read, and on an instance already
\* read it writes nothing and changes nothing; a mark_all_as_read(u) right
\* after a mark_all_as_read(u) returns 0.
C10_MarkReadIdempotent ==
    [][/\ last'.op = "mark_as_read" => inst'.row.is_read
       /\ (last'.op = "mark_as_read" /\ inst.row.is_read) =>
             (rows' = rows /\ inst' = inst /\ last'.wrote = 0)
       /\ (last.op = "mark_all_as_read" /\ last'.op = "mark_all_as_read"
              /\ last'.user = last.user) =>
             (last'.ret_n = 0 /\ rows' = rows)]_vars

\* a mark_all_as_read has returned 0 for a user whose records are all read
C10_Witness ==
    /\ last.op = "mark_all_as_read" /\ last.ret_n = 0
    /\ \E i \in StoredIds : rows[i].user = last.user /\ rows[i].is_read

\* C11: toggle_read_status inverts is_read of the instance and stores it,
\* whether the flag was true or false before, and a second toggle_read_status
\* right after the first leaves is_read as it was before the first.
C11_ToggleInvolution ==
    [][/\ last'.op = "toggle_read_status" =>
             /\ inst'.row.is_read = ~inst.row.is_read
             /\ rows'[inst.id].is_read = ~inst.row.is_read
             /\ last'.wrote = 1
             /\ \A i \in DOMAIN rows \ {inst.id} : rows'[i] = rows[i]
       /\ (last.op = "toggle_read_status" /\ last'.op = "toggle_read_status") =>
             /\ inst'.row.is_read = last.found_read
             /\ rows'[inst.id].is_read = last.found_read]_vars

\* a toggle found the record unread and has stored it read, beside another
\* record
C11_Witness ==
    /\ last.op = "toggle_read_status" /\ ~last.found_read
    /\ inst.row.is_read /\ rows[inst.id].is_read
    /\ \E i \in StoredIds : i # inst.id

\* C12: archive_all(user) sets is_visible to false on exactly the records of
\* that user that were visible, returns how many those were, and leaves the
\* records of other users and every other column of every record unchanged.
C12_ArchiveAllFrame ==
    [][last'.op = "archive_all" =>
          /\ DOMAIN rows' = DOMAIN rows
          /\ \A i \in DOMAIN rows :
                IF rows[i].user = last'.user /\ rows[i].is_visible
                THEN rows'[i] = [rows[i] EXCEPT !.is_visible = FALSE]
                ELSE rows'[i] = rows[i]
          /\ last'.ret_n = Cardinality({i \in DOMAIN rows :
                                rows[i].user = last'.user /\ rows[i].is_visible})
          /\ \A i \in DOMAIN rows' : rows'[i].user = last'.user => ~rows'[i].is_visible]_vars

\* archive_all has returned 3 for a user with five records, two of them
\* archived before, while another user's record is still visible
C12_Witness ==
    /\ last.op = "archive_all" /\ last.ret_n = 3
    /\ Cardinality({i \in StoredIds : rows[i].user = last.user}) = 5
    /\ \E i \in StoredIds : rows[i].user # last.user /\ rows[i].is_visible

\* the rows delete_all_expired is to remove and to keep, and nothing else
DeletesExpired ==
    /\ DOMAIN rows' = {i \in DOMAIN rows :
                          ~(rows[i].expires_at # NullInt /\ rows[i].expires_at <= clock)}
    /\ \A i \in DOMAIN rows' : rows'[i] = rows[i]
    /\ \A i \in DOMAIN rows :
          (rows[i].expires_at = NullInt \/ rows[i].expires_at > clock) =>
              i \in DOMAIN rows'

\* C13 as stated: delete_all_expired() removes every record whose expires_at
\* is not after the current time, whoever its recipient, keeps every record
\* without expires_at or expiring later, and returns the number of records
\* deleted.
C13_DeleteReturnsCount ==
    [][last'.op = "delete_all_expired" =>
          /\ DeletesExpired
          /\ last'.ret = <<Cardinality(DOMAIN rows) - Cardinality(DOMAIN rows')>>]_vars

\* C13 as amended: delete_all_expired() removes and keeps those records, and
\* returns the pair delete() yields, whose first component is the number of
\* records deleted.
C13_DeleteReturnsPair ==
    [][last'.op = "delete_all_expired" =>
          /\ DeletesExpired
          /\ Len(last'.ret) = 2
          /\ last'.ret[1] = Cardinality(DOMAIN rows) - Cardinality(DOMAIN rows')]_vars

\* a call has deleted one record, expiring at or before the hour of the
\* call, and kept a record without expires_at and a record expiring later
C13_Witness ==
    /\ last.op = "delete_all_expired" /\ Len(last.ret) = 2 /\ last.ret[1] = 1
    /\ clock > 0
    /\ \E i, j \in StoredIds :
          /\ rows[i].expires_at = NullInt
          /\ rows[j].expires_at > clock
          /\ rows[i].user # rows[j].user

\* C14: no bulk operation undoes the update of a concurrent request: whatever
\* runs between the steps of a bulk action, only mark_all_as_read changes a
\* stored is_read, and a turn of extend_expiration leaves a stored
\* expires_at as it is or seven days later than it is.
C14_NoLostUpdate ==
    [][\A i \in DOMAIN rows :
          /\ last'.op # "mark_all_as_read" => rows'[i].is_read = rows[i].is_read
          /\ last'.op = "extend_step" =>
                rows'[i].expires_at \in {rows[i].expires_at,
                                         rows[i].expires_at + SevenDays}]_vars

\* C15: with no other request running, extend_expiration moves expires_at
\* seven days (7 * 24 hours) later on each selected record that has it set,
\* leaves the selected records without expires_at and the unselected
\* records as they are, and reports the number of records it extended.
C15_ExtendFrame ==
    [][last'.op = "extend_expiration" =>
          /\ DOMAIN rows' = DOMAIN rows
          /\ \A i \in DOMAIN rows :
                IF i \in last'.sel /\ rows[i].expires_at # NullInt
                THEN rows'[i] = [rows[i] EXCEPT !.expires_at = @ + 7 * 24]
                ELSE rows'[i] = rows[i]
          /\ last'.ret_n = Cardinality({i \in last'.sel :
                                rows[i].expires_at # NullInt})]_vars

\* the action has extended one of two selected records, the other having no
\* expires_at, and an unselected record has its expires_at not extended
C15_Witness ==
    /\ last.op = "extend_expiration" /\ last.ret_n = 1
    /\ Cardinality(last.sel) = 2
    /\ \E i \in last.sel : rows[i].expires_at = NullInt
    /\ \E i \in last.sel : rows[i].expires_at >= 7 * 24
    /\ \E i \in StoredIds \ last.sel :
          rows[i].expires_at # NullInt /\ rows[i].expires_at < 7 * 24

C17_UpdatedInLast ==
    last.op = "updated_in_last" => (last.exc = "" /\ last.sel \subseteq StoredIds)

\* C18: expiring_soon(hours) selects exactly the records whose expires_at
\* lies in the closed interval from now to now + hours and changes nothing;
\* with hours = 24 a record expiring 12 hours from now is selected, and
\* records expiring 48 hours from now, an hour ago or never are not.
C18_ExpiringSoonWindow ==
    [][last'.op = "expiring_soon" =>
          /\ rows' = rows /\ clock' = clock
          /\ last'.exc = ""
          /\ last'.sel = {i \in DOMAIN rows :
                            /\ rows[i].expires_at # NullInt
                            /\ clock <= rows[i].expires_at
                            /\ rows[i].expires_at <= clock + last'.hours}
          /\ last'.hours = 24 =>
                \A i \in DOMAIN rows :
                    /\ rows[i].expires_at = clock + 12 => i \in last'.sel
                    /\ rows[i].expires_at = clock + 48 => i \notin last'.sel
                    /\ rows[i].expires_at = clock - 1 => i \notin last'.sel
                    /\ rows[i].expires_at = NullInt => i \notin last'.sel]_vars

\* expiring_soon(24) has selected the record expiring in 12 hours and the one
\* expiring in exactly 24, and none of those expiring in 48 hours, an hour
\* ago or never
C18_Witness ==
    /\ last.op = "expiring_soon" /\ last.hours = 24 /\ clock > 0
    /\ \E i, j \in last.sel :
          rows[i].expires_at = clock + 12 /\ rows[j].expires_at = clock + 24
    /\ \E i, j \in StoredIds \ last.sel :
          rows[i].expires_at = clock + 48 /\ rows[j].expires_at = clock - 1
    /\ Cardinality(last.sel) = 2

\* C19: a single-record operation writes no stored flag but its own: the
\* visibility and sent operations of one request leave every stored is_read
\* as it is, and the read-status operations of another leave every stored
\* is_visible and is_sent as they are, so that after both the record shows
\* both changes.
C19_FlagsIndependent ==
    [][\A i \in DOMAIN rows :
          /\ last'.op \in {"archive", "unarchive", "send_notification"} =>
                rows'[i].is_read = rows[i].is_read
          /\ last'.op \in {"mark_as_read", "mark_as_unread", "toggle_read_status"} =>
                (rows'[i].is_visible = rows[i].is_visible
                    /\ rows'[i].is_sent = rows[i].is_sent)]_vars

\* C20: a grouped creation that finds the record of its pair writes on it
\* the call's action, sender, entity, context, priority, severity and
\* delivery method and is_read = false; the record keeps its primary key,
\* recipient, group_id, is_visible, is_sent, expires_at and scope, and no
\* other record changes.
C20_GroupedUpdateFrame ==
    [][(last'.op = "group_create" /\ last'.exc = "" /\ ~last'.created) =>
          /\ DOMAIN rows' = DOMAIN rows
          /\ \E i \in DOMAIN rows :
                /\ last'.ret[1] = i
                /\ \A j \in DOMAIN rows \ {i} : rows'[j] = rows[j]
                /\ rows'[i].user = rows[i].user
                /\ rows'[i].group_id = rows[i].group_id
                /\ rows'[i].is_visible = rows[i].is_visible
                /\ rows'[i].is_sent = rows[i].is_sent
                /\ rows'[i].expires_at = rows[i].expires_at
                /\ rows'[i].scope = rows[i].scope
                /\ rows'[i].action = last'.action
                /\ rows'[i].context = last'.context
                /\ rows'[i].priority = last'.priority
                /\ rows'[i].sender_type = last'.sender.ct
                /\ rows'[i].sender_id = last'.sender.id
                /\ rows'[i].entity_type = NULL /\ rows'[i].entity_id = NullInt
                /\ rows'[i].severity = "warning"
                /\ rows'[i].delivery_method = "email"
                /\ rows'[i].is_read = FALSE]_vars

\* a grouped call has refreshed a record that was read, archived, sent and
\* expired: it is unread again and still archived, sent and expired, beside
\* a plain record that is still read
C20_Witness ==
    /\ last.op = "group_create" /\ last.exc = "" /\ ~last.created
    /\ last.found_read
    /\ \E i \in StoredIds :
          /\ last.ret = <<i>>
          /\ ~rows[i].is_read /\ ~rows[i].is_visible /\ rows[i].is_sent
          /\ rows[i].expires_at # NullInt
          /\ rows[i].context = "c2"
    /\ \E j \in StoredIds : rows[j].group_id = NULL /\ rows[j].is_read

====
